---- MODULE Spec2Model ----
(***************************************************************************)
(* Resume screening platform: the single analyzer (ResumeAnalyzer) and the *)
(* batch ranker (BatchProcessor) with the similarity calculator and the    *)
(* vector index they use.                                                  *)
(*                                                                         *)
(* Scores, cosines and distances are fixed-point numbers with four         *)
(* decimals: the integer x stands for x / SCALE.  Products with a          *)
(* fractional factor are rounded down.                                     *)
(***************************************************************************)
EXTENDS Integers, Sequences, FiniteSets, TLC

\* ------------------------------------------------------------ bounds

\* Largest number of input paths of a batch.
MaxPaths == 3

\* The fixed-point unit: 1.0.
SCALE == 100 * 100

\* The top_n values a batch is invoked with (fewer than, as many as and
\* more than the processed documents).
TopNs == {1, 2, 4}

\* ----------------------------------------------------------- helpers

Min(a, b) == IF a <= b THEN a ELSE b

Max(a, b) == IF a >= b THEN a ELSE b

Range(s) == { s[k] : k \in 1..Len(s) }

RECURSIVE SumSeq(_)
SumSeq(s) == IF s = <<>> THEN 0 ELSE Head(s) + SumSeq(Tail(s))

RECURSIVE SumOver(_, _)
\* The sum of f[x] over the finite set S.
SumOver(f, S) ==
    IF S = {} THEN 0
    ELSE LET x == CHOOSE y \in S : TRUE IN f[x] + SumOver(f, S \ {x})

RECURSIVE SqrtBetween(_, _, _)
\* The largest r in lo..hi with r * r <= n (lo * lo <= n assumed).
SqrtBetween(n, lo, hi) ==
    IF lo >= hi THEN lo
    ELSE LET mid == (lo + hi + 1) \div 2
         IN IF mid * mid <= n THEN SqrtBetween(n, mid, hi)
            ELSE SqrtBetween(n, lo, mid - 1)

\* math.sqrt on the fixed-point x >= 0: sqrt(x / SCALE) * SCALE, rounded down.
FixSqrt(x) == SqrtBetween(x * SCALE, 0, 2 * SCALE)

\* All orderings of the finite set S as sequences without repetition.
Perms(S) ==
    { s \in [1..Cardinality(S) -> S] : \A a, b \in 1..Cardinality(S) : a # b => s[a] # s[b] }

\* No value (Python's None).
None == [none |-> TRUE]

\* The empty mapping (Python's {}).
EmptyMap == [s \in {} |-> 0]

\* ------------------------------------------------- similarity calculator

\* The section vocabulary of extract_key_sections.
Sections == {"skills", "experience", "education", "summary", "full_content"}

\* SimilarityCalculator.enhance_similarity_score.
enhance_similarity_score(raw_score) ==
    IF raw_score < 1500 THEN raw_score * 2
    ELSE IF raw_score < 3000 THEN 3000 + (raw_score - 1500) * 2
    ELSE IF raw_score < 6000 THEN 4500 + ((raw_score - 3000) * 3) \div 2
    ELSE 9000 + (raw_score - 6000) \div 4

\* math.sqrt raises ValueError on a negative argument.
BoostRaises(score) == score < 0

\* A faulty apply_final_score_boost: the final min(1.0, ...) is missing.
boost_without_clamp(score) ==
    LET boosted == FixSqrt(score) * 85 + score * 15
    IN IF boosted > 2500 * 100 THEN (boosted * 12) \div 1000 ELSE boosted \div 100

\* A faulty apply_final_score_boost: the 20% lift is given below the
\* threshold instead of above it.
boost_lift_below(score) ==
    LET boosted == FixSqrt(score) * 85 + score * 15
        lifted  == IF boosted < 2500 * 100 THEN (boosted * 12) \div 1000
                   ELSE boosted \div 100
    IN Min(SCALE, lifted)

\* SimilarityCalculator.apply_final_score_boost, for score >= 0 (boosted
\* is in hundredths of the fixed-point unit).
apply_final_score_boost(score) ==
    LET boosted == FixSqrt(score) * 85 + score * 15
        lifted  == IF boosted > 2500 * 100 THEN (boosted * 12) \div 1000
                   ELSE boosted \div 100
    IN Min(SCALE, lifted)

\* The weight table of _calculate_comprehensive_similarity, in percent.
section_weights ==
    [skills |-> 35, experience |-> 30, full_content |-> 25, education |-> 10]

\* The sections weighted_similarity_score scores: those with an embedding
\* and a weight.
ScoredSections(resume_sections, weights) ==
    DOMAIN resume_sections \cap DOMAIN weights

\* total_score of weighted_similarity_score: cos maps each embedded section
\* to its cosine with the job vector.
WeightedTotal(cos, weights) ==
    LET S == ScoredSections(cos, weights)
        contrib == [s \in S |-> enhance_similarity_score(cos[s]) * weights[s]]
    IN SumOver(contrib, S) \div 100

\* The weight table weighted_similarity_score takes when it is given none,
\* in percent.
default_section_weights ==
    [skills |-> 35, experience |-> 30, education |-> 25, summary |-> 10]

\* A faulty weighted_similarity_score: the section map holds the weighted
\* values.
weighted_scores_in_map(cos, section_weights_arg) ==
    LET weights == IF section_weights_arg = None THEN default_section_weights
                   ELSE section_weights_arg
        total == WeightedTotal(cos, weights)
    IN IF BoostRaises(total)
       THEN [overall |-> 0, section_scores |-> EmptyMap, raised |-> TRUE]
       ELSE [overall |-> apply_final_score_boost(total),
             section_scores |->
                 [s \in ScoredSections(cos, weights) |->
                     (enhance_similarity_score(cos[s]) * weights[s]) \div 100],
             raised |-> FALSE]

\* SimilarityCalculator.weighted_similarity_score: final_score,
\* section_scores, and whether an exception inside the try block (the
\* square root of a negative total) was logged and answered with (0.0, {}).
weighted_similarity_score(cos, section_weights_arg) ==
    LET weights == IF section_weights_arg = None THEN default_section_weights
                   ELSE section_weights_arg
        total == WeightedTotal(cos, weights)
    IN IF BoostRaises(total)
       THEN [overall |-> 0, section_scores |-> EmptyMap, raised |-> TRUE]
       ELSE [overall |-> apply_final_score_boost(total),
             section_scores |->
                 [s \in ScoredSections(cos, weights) |-> enhance_similarity_score(cos[s])],
             raised |-> FALSE]

\* ResumeDocument.has_section for the sections of a document whose
\* non-blank sections are the domain of cos.
has_section(cos, section) == section \in DOMAIN cos

\* np.var of the values of section_scores (population variance).
Variance(section_scores) ==
    LET S  == DOMAIN section_scores
        n  == Cardinality(S)
        sq == [s \in S |-> section_scores[s] * section_scores[s]]
        sm == SumOver(section_scores, S)
    IN (n * SumOver(sq, S) - sm * sm) \div (n * n * SCALE)

\* A faulty _calculate_confidence: the two weights are exchanged.
confidence_weights_exchanged(section_scores, cos) ==
    LET available == Cardinality({ s \in {"skills", "experience", "education"} :
                                     has_section(cos, s) })
        section_coverage == (available * SCALE) \div 3
        consistency_factor ==
            IF Cardinality(DOMAIN section_scores) > 1
            THEN Max(0, SCALE - Variance(section_scores))
            ELSE SCALE \div 2
        confidence == (section_coverage * 4) \div 10 + (consistency_factor * 6) \div 10
    IN Min(SCALE, Max(SCALE \div 10, confidence))

\* ResumeAnalyzer._calculate_confidence.
calculate_confidence(section_scores, cos) ==
    LET available == Cardinality({ s \in {"skills", "experience", "education"} :
                                     has_section(cos, s) })
        section_coverage == (available * SCALE) \div 3
        consistency_factor ==
            IF Cardinality(DOMAIN section_scores) > 1
            THEN Max(0, SCALE - Variance(section_scores))
            ELSE SCALE \div 2
        confidence == (section_coverage * 6) \div 10 + (consistency_factor * 4) \div 10
    IN Min(SCALE, Max(SCALE \div 10, confidence))

\* BatchProcessor._enhance_batch_score.
enhance_batch_score(raw_score) ==
    IF raw_score < 2000 THEN (raw_score * 3) \div 2
    ELSE IF raw_score < 4000 THEN 3500 + (raw_score - 2000) * 2
    ELSE IF raw_score < 6000 THEN 6500 + ((raw_score - 4000) * 5) \div 4
    ELSE 8500 + ((raw_score - 6000) * 3) \div 8

\* A faulty conversion: distance / (1 + distance), which grows with the
\* distance.
DistanceAsScore(distance) == (distance * SCALE) \div (SCALE + distance)

\* The conversion of similarity_search: 1 / (1 + distance).
DistanceToSimilarity(distance) == (SCALE * SCALE) \div (SCALE + distance)

\* -------------------------------------------------------- result models

\* The unit of the scores given to the functions of SimilarityScore when
\* they are called on their own: five decimals, so that round(.., 2) of the
\* percentage has something to round.
FINE == 10 * SCALE

\* Python's round(x, 2) for x = n / d >= 0, in hundredths: the nearest
\* hundredth, and either neighbour when x is half-way in decimal (the
\* binary float x is on one side or the other).
RoundHundredths(n, d) ==
    LET q == (n * 100) \div d
        r == (n * 100) % d
    IN IF 2 * r < d THEN {q} ELSE IF 2 * r > d THEN {q + 1} ELSE {q, q + 1}

\* SimilarityScore.get_score_percentage, in hundredths of a percent, for an
\* overall score given in the unit 1 / unit.
get_score_percentage(overall_score, unit) == RoundHundredths(overall_score * 100, unit)

\* A faulty get_grade: the comparisons are strict.
get_grade_strict(score_pct) ==
    IF score_pct > 8000 THEN "A"
    ELSE IF score_pct > 7000 THEN "B"
    ELSE IF score_pct > 6000 THEN "C"
    ELSE IF score_pct > 5000 THEN "D"
    ELSE "F"

\* SimilarityScore.get_grade for the percentage score_pct (in hundredths).
get_grade(score_pct) ==
    IF score_pct >= 8000 THEN "A"
    ELSE IF score_pct >= 7000 THEN "B"
    ELSE IF score_pct >= 6000 THEN "C"
    ELSE IF score_pct >= 5000 THEN "D"
    ELSE "F"

\* What a call leaves: the value it returned, or nothing but the exception
\* it raised.
Return(value) == [value |-> value]

Exception == [exception |-> TRUE]

\* --------------------------------------------------------------- inputs

\* Cosines of a section's embedding with the job's, from opposite to equal.
CosVals == {0 - 5000, 1000, 4500, 9000}

\* What a resume file holds: the cosine of each non-blank section, and
\* full_content is non-blank whenever a section taken from it is.
Contents ==
    { c \in UNION { [S -> CosVals] : S \in SUBSET (Sections \ {"summary"}) } :
        DOMAIN c # {} => "full_content" \in DOMAIN c }

\* A file path is the sequence of its characters: the directories, each
\* followed by "/", the name and the extension.
PathOf(dirs, name, ext) == dirs \o name \o ext

\* The files of a batch: ok tells whether load_pdf and the embedding of the
\* content succeed, distance is the index distance of the content's
\* embedding to the job's, cos the cosine of each non-blank section.
\* year: the content holds the word "year"; long: it is longer than 2000
\* characters.  file_path is the path given to the batch, name the file's
\* name in it.
FileKinds ==
    { [ok |-> FALSE, distance |-> 0, cos |-> EmptyMap, year |-> FALSE, long |-> FALSE,
       name |-> <<"x">>,
       file_path |-> PathOf(<<>>, <<"x">>, <<".", "p", "d", "f">>)],
      [ok |-> TRUE, distance |-> 0,
       cos |-> [skills |-> 9000, experience |-> 4500, education |-> 1000,
                full_content |-> 9000],
       year |-> TRUE, long |-> TRUE,
       name |-> <<"c", "v", ".", "a">>,
       file_path |-> PathOf(<<"/", "t", ".", "d", "/">>, <<"c", "v", ".", "a">>,
                            <<".", "p", "d", "f">>)],
      [ok |-> TRUE, distance |-> 15000,
       cos |-> [skills |-> 0 - 5000, full_content |-> 4500],
       year |-> TRUE, long |-> FALSE,
       name |-> <<"b">>,
       file_path |-> PathOf(<<"u", "/", "v", "/">>, <<"b">>, <<".", "t", "x", "t">>)],
      [ok |-> TRUE, distance |-> 16000,
       cos |-> [full_content |-> 9000],
       year |-> FALSE, long |-> FALSE,
       name |-> <<"c">>,
       file_path |-> PathOf(<<"w", ".", "d", "/">>, <<"c">>, <<>>)] }

\* Query distances from 0 (the same vector) on, on both sides of the
\* similarities 0.6, 0.4 and 0.2 where _enhance_batch_score changes its
\* formula.
DistanceGrid ==
    {0, 1, 2500, 6666, 6667, 10000, 14999, 15000, 15001, 16000, 39999, 40000,
     40001, 90000, 100 * SCALE, 10000 * SCALE}

\* What the persisted collection may hold when a run starts: nothing, or
\* an entry of an earlier run (its id is none of this run's).
StaleEntry == [id |-> 0, distance |-> 1000]

\* The missing-skill lists _identify_missing_skills may return.
MissingSkillLists == {<<>>, <<"Python", "Aws", "Docker", "Sql">>}

\* ---------------------------------------------------------------- state

VARIABLES
    mode,            \* the entry point invoked: "single" or "batch"
    outcome,         \* "running", "returned" or "raised"
    result,          \* the value returned to the caller
    \* --- batch
    resume_paths,    \* the input files, by position
    max_workers,     \* the width of the processor's worker pool
    top_n,
    pc,              \* the statement process_batch_resumes is at
    task,            \* per path: "queued", "running" or "done"
    resumes,         \* ids of the documents collected, in collection order
    index,           \* the entries of the vector collection
    query,           \* the query results, best first
    i,               \* enumerate index of the ranking loop (1-based)
    rankings,
    rescored,        \* ids given a detailed re-score
    rank_error,      \* what the except branch of _rank_candidates caught: "none",
                     \* "embedding" or "query"
    \* --- single
    stage,
    content,         \* the resume's sections, by cosine
    missing_skills,
    section_embeddings,
    similarity_score,
    scoring_error,   \* the except branch of weighted_similarity_score was taken
    recommendations,
    \* --- two batch runs on one index
    runs,            \* per run: its processed collection, top_n, position,
                     \* collection handle and result
    interleaved,     \* a run cleared the index between another run's clear
                     \* and query
    \* --- a call of one function
    call,            \* the function called and its arguments
    ret              \* what the call returned

bvars == <<resume_paths, max_workers, top_n, pc, task, resumes, index, query, i, rankings,
           rescored, rank_error>>

svars == <<stage, content, missing_skills, section_embeddings, similarity_score,
           scoring_error, recommendations>>

xvars == <<runs, interleaved, call, ret>>

vars == <<mode, outcome, result, bvars, svars, xvars>>

\* BatchProcessor.__init__: the worker-pool widths a processor is built
\* with, the default 4 and one that fewer paths than 4 fill.
PoolWidths == {2, 4}

\* The default width.
DefaultWorkers == 4

PathIds == 1..Len(resume_paths)

\* ------------------------------------------------------ batch: stage 1

\* BatchProcessor._process_single_resume: the document (its id) in a
\* one-element sequence, or the empty sequence for None: every exception
\* of the extraction and of the embedding is caught and logged.
process_single_resume(p) == IF resume_paths[p].ok THEN <<p>> ELSE <<>>

\* A faulty collection loop: a failed item discards what was collected.
CollectResetOnNone(rs, resume_doc) == IF resume_doc = <<>> THEN <<>> ELSE rs \o resume_doc

\* The collection loop of _process_resume_batch: a document is appended, a
\* None is skipped.
Collect(rs, resume_doc) == rs \o resume_doc

\* A faulty pool: a thread is started for every task submitted.
StartTaskUnbounded(p) ==
    /\ mode = "batch" /\ pc = "extract"
    /\ task[p] = "queued"
    /\ \A q \in PathIds : q < p => task[q] # "queued"
    /\ task' = [task EXCEPT ![p] = "running"]
    /\ UNCHANGED <<xvars, mode, outcome, result, resume_paths, max_workers, top_n, pc,
                   resumes, index, query, i, rankings, rescored, rank_error, svars>>

\* A pool thread takes the oldest queued task.
StartTask(p) ==
    /\ mode = "batch" /\ pc = "extract"
    /\ task[p] = "queued"
    /\ \A q \in PathIds : q < p => task[q] # "queued"
    /\ Cardinality({ q \in PathIds : task[q] = "running" }) < max_workers
    /\ task' = [task EXCEPT ![p] = "running"]
    /\ UNCHANGED <<xvars, mode, outcome, result, resume_paths, max_workers, top_n, pc, resumes, index,
                   query, i, rankings, rescored, rank_error, svars>>

\* A faulty collection: the task of a path that gave no document is
\* submitted again.
FinishTaskRetry(p) ==
    /\ mode = "batch" /\ pc = "extract"
    /\ task[p] = "running"
    /\ task' = [task EXCEPT ![p] = IF process_single_resume(p) = <<>> THEN "queued"
                                   ELSE "done"]
    /\ resumes' = Collect(resumes, process_single_resume(p))
    /\ UNCHANGED <<xvars, mode, outcome, result, resume_paths, max_workers, top_n, pc, index,
                   query, i, rankings, rescored, rank_error, svars>>

\* A task completes and as_completed hands its future to the collection loop.
FinishTask(p) ==
    /\ mode = "batch" /\ pc = "extract"
    /\ task[p] = "running"
    /\ task' = [task EXCEPT ![p] = "done"]
    /\ resumes' = Collect(resumes, process_single_resume(p))
    /\ UNCHANGED <<xvars, mode, outcome, result, resume_paths, max_workers, top_n, pc, index,
                   query, i, rankings, rescored, rank_error, svars>>

\* _process_resume_batch returns the collection once every future is done.
ProcessResumeBatchReturn ==
    /\ mode = "batch" /\ pc = "extract"
    /\ \A p \in PathIds : task[p] = "done"
    /\ pc' = "index"
    /\ UNCHANGED <<xvars, mode, outcome, result, resume_paths, max_workers, top_n, task, resumes, index,
                   query, i, rankings, rescored, rank_error, svars>>

\* ------------------------------------------------- batch: index rebuild

\* A faulty clear_collection: the collection is looked up by name and kept
\* with what it holds.
collection_kept(collection) == collection

\* VectorStoreManager.clear_collection: the collection is deleted and
\* created anew.
clear_collection(collection) == {}

\* The entries _index_resumes_in_vector_store adds: one per document, under
\* the document's id.
IndexEntries(rs) ==
    { [id |-> p, distance |-> resume_paths[p].distance] : p \in Range(rs) }

\* A faulty index rebuild: the collection is not cleared first.
index_without_clear(collection, rs) == collection \cup IndexEntries(rs)

\* BatchProcessor._index_resumes_in_vector_store.
index_resumes_in_vector_store(collection, rs) ==
    clear_collection(collection) \cup IndexEntries(rs)

IndexResumes ==
    /\ mode = "batch" /\ pc = "index"
    /\ index' = index_resumes_in_vector_store(index, resumes)
    /\ pc' = "rank"
    /\ UNCHANGED <<xvars, mode, outcome, result, resume_paths, max_workers, top_n, task, resumes,
                   query, i, rankings, rescored, rank_error, svars>>

\* ------------------------------------------------------- batch: ranking

\* The index answers a query nearest first; entries at the same distance
\* come in either order.
SortedByDistance(s) ==
    \A a, b \in 1..Len(s) : a < b => s[a].distance <= s[b].distance

\* collection.query: the n_results nearest entries, for n_results >= 1.
collection_query(collection, n_results) ==
    { SubSeq(s, 1, Min(n_results, Len(s))) :
        s \in { t \in Perms(collection) : SortedByDistance(t) } }

\* A faulty similarity_search: the entries are answered in the order the
\* documents were collected in.
search_in_collection_order(collection, top_k) ==
    { [k \in 1..Min(top_k, Len(resumes)) |->
          [id |-> resumes[k],
           score |-> DistanceToSimilarity(resume_paths[resumes[k]].distance)]] }

\* VectorStoreManager.similarity_search: each result with its distance
\* converted to a similarity score.
similarity_search(collection, top_k) ==
    { [k \in 1..Len(r) |->
          [id |-> r[k].id, score |-> DistanceToSimilarity(r[k].distance)]] :
        r \in collection_query(collection, top_k) }

\* ResumeCollection.get_resume_by_id: whether the id is a document of the
\* collection.
get_resume_by_id(rs, resume_id) == resume_id \in Range(rs)

\* BatchProcessor._generate_positive_reasoning: the bracket of the text.
generate_positive_reasoning(score) ==
    IF score >= 7500 THEN "excellent"
    ELSE IF score >= 6000 THEN "strong"
    ELSE IF score >= 4500 THEN "promising"
    ELSE IF score >= 3000 THEN "potential"
    ELSE "manual review"

\* BatchProcessor._calculate_detailed_similarity_score, its embedding calls
\* succeeding, for a document whose non-blank sections have the cosines cos.
calculate_detailed_similarity_score(cos, base_score) ==
    LET enhanced_base_score == enhance_batch_score(base_score)
    IN [overall_score  |-> enhanced_base_score,
        section_scores |-> [s \in DOMAIN cos |-> enhance_batch_score(cos[s])],
        confidence     |-> Min(SCALE, enhanced_base_score + SCALE \div 10),
        reasoning      |-> generate_positive_reasoning(enhanced_base_score)]

\* BatchProcessor._generate_candidate_highlights.
generate_candidate_highlights(p) ==
    LET f == resume_paths[p]
        highlights ==
            (IF f.year THEN <<"Demonstrated work experience">> ELSE <<>>)
            \o (IF has_section(f.cos, "education")
                THEN <<"Relevant educational background">> ELSE <<>>)
            \o (IF has_section(f.cos, "skills")
                THEN <<"Technical skills listed">> ELSE <<>>)
            \o (IF f.long
                THEN <<"Comprehensive resume with detailed experience">> ELSE <<>>)
    IN SubSeq(highlights, 1, Min(3, Len(highlights)))

\* The last position of the character c in s, 0 when it is not in s.
LastIndexOf(s, c) ==
    LET at == { k \in 1..Len(s) : s[k] = c }
    IN IF at = {} THEN 0 ELSE CHOOSE k \in at : \A j \in at : j <= k

\* os.path.basename: what follows the last "/".
basename(file_path) == SubSeq(file_path, LastIndexOf(file_path, "/") + 1, Len(file_path))

\* os.path.splitext(filename)[0]: the name up to its last ".", or the whole
\* name when it has none or only "." before it.
splitext_root(filename) ==
    LET dot == LastIndexOf(filename, ".")
    IN IF dot > 0 /\ \E k \in 1..(dot - 1) : filename[k] # "."
       THEN SubSeq(filename, 1, dot - 1)
       ELSE filename

\* A faulty _get_exact_filename: the name is cut at its first ".".
filename_to_first_dot(file_path) ==
    LET filename == basename(file_path)
        dots     == { k \in 1..Len(filename) : filename[k] = "." }
    IN IF dots = {} THEN filename
       ELSE SubSeq(filename, 1, (CHOOSE k \in dots : \A j \in dots : k <= j) - 1)

\* BatchProcessor._get_exact_filename.
get_exact_filename(file_path) == splitext_root(basename(file_path))

\* The rank the loop of _rank_candidates gives the result at enumerate
\* index k (1-based here, so that rank = i + 1 of the code is k).
RankOf(k) == k

\* The CandidateRanking built for the query result at position k (resume is
\* the document it was resolved to).
CandidateRanking(k, entry) ==
    [rank             |-> RankOf(k),
     resume           |-> entry.id,
     resume_id        |-> get_exact_filename(resume_paths[entry.id].file_path),
     candidate_name   |-> get_exact_filename(resume_paths[entry.id].file_path),
     similarity_score |-> calculate_detailed_similarity_score(resume_paths[entry.id].cos, entry.score),
     key_highlights   |-> generate_candidate_highlights(entry.id)]

\* The slice rankings[:top_n].
TopSlice(rs, n) == SubSeq(rs, 1, Min(n, Len(rs)))

\* The embedding of the job text raises: the except branch of
\* _rank_candidates logs the error and returns [].
RankJobEmbedFail ==
    /\ mode = "batch" /\ pc = "rank"
    /\ rank_error' = "embedding"
    /\ rankings' = <<>>
    /\ pc' = "summary"
    /\ UNCHANGED <<xvars, mode, outcome, result, resume_paths, max_workers, top_n, task, resumes, index,
                   query, i, rescored, svars>>

\* The query for top_k = len(resumes) >= 1.
RankQuery ==
    /\ mode = "batch" /\ pc = "rank"
    /\ Len(resumes) > 0
    /\ \E q \in similarity_search(index, Len(resumes)) : query' = q
    /\ i' = 1
    /\ pc' = "rescore"
    /\ UNCHANGED <<xvars, mode, outcome, result, resume_paths, max_workers, top_n, task, resumes, index,
                   rankings, rescored, rank_error, svars>>

\* A faulty handling of the empty query: the error is re-raised to the
\* caller of process_batch_resumes.
RankQueryEmptyReraise ==
    /\ mode = "batch" /\ pc = "rank"
    /\ Len(resumes) = 0
    /\ rank_error' = "query"
    /\ outcome' = "raised"
    /\ pc' = "done"
    /\ UNCHANGED <<xvars, mode, result, resume_paths, max_workers, top_n, task, resumes, index,
                   query, i, rankings, rescored, svars>>

\* The query for top_k = 0: the index either refuses n_results = 0 (the
\* error is re-raised by similarity_search and caught by _rank_candidates)
\* or answers with no result; _rank_candidates returns [] in both cases.
RankQueryEmpty ==
    /\ mode = "batch" /\ pc = "rank"
    /\ Len(resumes) = 0
    /\ rank_error' \in {"query", "none"}
    /\ rankings' = <<>>
    /\ pc' = "summary"
    /\ UNCHANGED <<xvars, mode, outcome, result, resume_paths, max_workers, top_n, task, resumes, index,
                   query, i, rescored, svars>>

\* One iteration of the ranking loop: the result is resolved to its
\* document, re-scored and appended; a result that resolves to no document
\* of the collection is skipped.
RescoreStep ==
    /\ mode = "batch" /\ pc = "rescore"
    /\ i <= Len(query)
    /\ IF get_resume_by_id(resumes, query[i].id)
       THEN /\ rankings' = Append(rankings, CandidateRanking(i, query[i]))
            /\ rescored' = rescored \cup {query[i].id}
       ELSE UNCHANGED <<rankings, rescored>>
    /\ i' = i + 1
    /\ UNCHANGED <<xvars, mode, outcome, result, resume_paths, max_workers, top_n, pc, task, resumes, index,
                   query, rank_error, svars>>

\* An embedding call of the detailed re-score raises: the except branch of
\* _rank_candidates logs the error and returns [].
RescoreEmbedFail ==
    /\ mode = "batch" /\ pc = "rescore"
    /\ i <= Len(query)
    /\ get_resume_by_id(resumes, query[i].id)
    /\ rank_error' = "embedding"
    /\ rankings' = <<>>
    /\ pc' = "summary"
    /\ UNCHANGED <<xvars, mode, outcome, result, resume_paths, max_workers, top_n, task, resumes, index,
                   query, i, rescored, svars>>

\* The loop is over: return rankings[:top_n].
RankReturn ==
    /\ mode = "batch" /\ pc = "rescore"
    /\ i > Len(query)
    /\ rankings' = TopSlice(rankings, top_n)
    /\ pc' = "summary"
    /\ UNCHANGED <<xvars, mode, outcome, result, resume_paths, max_workers, top_n, task, resumes, index,
                   query, i, rescored, rank_error, svars>>

\* ------------------------------------------------------- batch: summary

\* The scores of the rankings, in rank order.
Scores(rs) == [k \in 1..Len(rs) |-> rs[k].similarity_score.overall_score]

\* A sequence in non-decreasing order with the elements of s.
SortedSeq(s) ==
    LET perm == CHOOSE f \in Perms(1..Len(s)) :
                    \A a, b \in 1..Len(s) : a < b => s[f[a]] <= s[f[b]]
    IN [k \in 1..Len(s) |-> s[perm[k]]]

\* np.median.
Median(s) ==
    LET t == SortedSeq(s)
        n == Len(s)
    IN IF n % 2 = 1 THEN t[(n + 1) \div 2]
       ELSE (t[n \div 2] + t[n \div 2 + 1]) \div 2

\* The number of elements of s in the set S.
CountIn(s, S) == Cardinality({ k \in 1..Len(s) : s[k] \in S })

\* A faulty _generate_batch_summary: the buckets have the edges their
\* labels name (0.6 to 0.8, 0.4 to 0.6, below 0.4).
summary_buckets_as_labelled(rs, total_candidates) ==
    IF rs = <<>> THEN [error |-> "No rankings generated"]
    ELSE LET scores == Scores(rs)
             R == Range(scores)
         IN [total_processed  |-> Len(rs),
             total_candidates |-> total_candidates,
             average_score    |-> SumSeq(scores) \div Len(scores),
             median_score     |-> Median(scores),
             max_score        |-> CHOOSE x \in R : \A y \in R : y <= x,
             min_score        |-> CHOOSE x \in R : \A y \in R : x <= y,
             score_distribution |->
                 [excellent |-> CountIn(scores, { x \in R : x > 8000 }),
                  good      |-> CountIn(scores, { x \in R : 6000 <= x /\ x <= 8000 }),
                  fair      |-> CountIn(scores, { x \in R : 4000 <= x /\ x <= 6000 }),
                  poor      |-> CountIn(scores, { x \in R : x < 4000 })]]

\* BatchProcessor._generate_batch_summary.
generate_batch_summary(rs, total_candidates) ==
    IF rs = <<>> THEN [error |-> "No rankings generated"]
    ELSE LET scores == Scores(rs)
             R == Range(scores)
         IN [total_processed  |-> Len(rs),
             total_candidates |-> total_candidates,
             average_score    |-> SumSeq(scores) \div Len(scores),
             median_score     |-> Median(scores),
             max_score        |-> CHOOSE x \in R : \A y \in R : y <= x,
             min_score        |-> CHOOSE x \in R : \A y \in R : x <= y,
             score_distribution |->
                 [excellent |-> CountIn(scores, { x \in R : x > 8000 }),
                  good      |-> CountIn(scores, { x \in R : 6500 <= x /\ x <= 8000 }),
                  fair      |-> CountIn(scores, { x \in R : 5000 <= x /\ x < 6500 }),
                  poor      |-> CountIn(scores, { x \in R : x < 5000 })]]

\* The id of the job description of the run and the clock's answer when the
\* result is built.
JobId == "job_description.id"

Now == "datetime.now()"

\* The BatchAnalysisResult process_batch_resumes builds.
BatchAnalysisResult(paths, n, rs) ==
    [job_description_id |-> JobId,
     total_candidates   |-> Len(paths),
     top_n_requested    |-> n,
     rankings           |-> rs,
     analysis_summary   |-> generate_batch_summary(rs, Len(paths)),
     analysis_timestamp |-> Now]

\* The summary is generated and the result returned to the caller.
ReturnBatchResult ==
    /\ mode = "batch" /\ pc = "summary"
    /\ result' = BatchAnalysisResult(resume_paths, top_n, rankings)
    /\ outcome' = "returned"
    /\ pc' = "done"
    /\ UNCHANGED <<xvars, mode, resume_paths, max_workers, top_n, task, resumes, index, query, i, rankings,
                   rescored, rank_error, svars>>

\* ------------------------------------------------------ single analysis

\* ResumeAnalyzer._generate_reasoning: the brackets of the text's parts.
generate_reasoning(section_scores, overall_score) ==
    LET bracket(x) == IF x >= 7000 THEN "strong"
                      ELSE IF x >= 4000 THEN "moderate" ELSE "limited"
    IN << IF overall_score >= 8000 THEN "excellent"
          ELSE IF overall_score >= 6000 THEN "good"
          ELSE IF overall_score >= 4000 THEN "moderate" ELSE "limited" >>
       \o (IF "skills" \in DOMAIN section_scores
           THEN <<bracket(section_scores["skills"])>> ELSE <<>>)
       \o (IF "experience" \in DOMAIN section_scores
           THEN <<bracket(section_scores["experience"])>> ELSE <<>>)

\* ResumeAnalyzer._calculate_comprehensive_similarity, the job embedding
\* succeeding: the SimilarityScore and whether the scoring raised inside
\* weighted_similarity_score.
calculate_comprehensive_similarity(embeddings, cos) ==
    LET w == weighted_similarity_score(embeddings, section_weights)
    IN [score |-> [overall_score  |-> w.overall,
                   section_scores |-> w.section_scores,
                   confidence     |-> calculate_confidence(w.section_scores, cos),
                   reasoning      |-> generate_reasoning(w.section_scores, w.overall)],
        raised |-> w.raised]

\* A faulty _generate_recommendations: the last three entries are kept.
recommendations_last_three(score, missing) ==
    LET overall == score.overall_score
        low(sec) == sec \in DOMAIN score.section_scores /\ score.section_scores[sec] < 5000
        fired ==
            (IF overall < 6000 THEN <<[rule |-> "more experience", skills |-> <<>>]>> ELSE <<>>)
            \o (IF missing # <<>>
                THEN <<[rule |-> "develop skills", skills |-> SubSeq(missing, 1, Min(3, Len(missing)))]>>
                ELSE <<>>)
            \o (IF low("skills") THEN <<[rule |-> "skills section", skills |-> <<>>]>> ELSE <<>>)
            \o (IF low("experience") THEN <<[rule |-> "experience section", skills |-> <<>>]>> ELSE <<>>)
            \o (IF overall >= 8000 THEN <<[rule |-> "interview", skills |-> <<>>]>>
                ELSE IF overall >= 6000 THEN <<[rule |-> "consider", skills |-> <<>>]>>
                ELSE <<>>)
    IN SubSeq(fired, Max(1, Len(fired) - 2), Len(fired))

\* ResumeAnalyzer._generate_recommendations: the rules that fire, in rule
\* order, cut to three.
generate_recommendations(score, missing) ==
    LET overall == score.overall_score
        low(sec) == sec \in DOMAIN score.section_scores /\ score.section_scores[sec] < 5000
        fired ==
            (IF overall < 6000 THEN <<[rule |-> "more experience", skills |-> <<>>]>> ELSE <<>>)
            \o (IF missing # <<>>
                THEN <<[rule |-> "develop skills", skills |-> SubSeq(missing, 1, Min(3, Len(missing)))]>>
                ELSE <<>>)
            \o (IF low("skills") THEN <<[rule |-> "skills section", skills |-> <<>>]>> ELSE <<>>)
            \o (IF low("experience") THEN <<[rule |-> "experience section", skills |-> <<>>]>> ELSE <<>>)
            \o (IF overall >= 8000 THEN <<[rule |-> "interview", skills |-> <<>>]>>
                ELSE IF overall >= 6000 THEN <<[rule |-> "consider", skills |-> <<>>]>>
                ELSE <<>>)
    IN SubSeq(fired, 1, Min(3, Len(fired)))

\* The stage an exception of analyze_single_resume leads to: it is logged
\* and re-raised to the caller.
Raised == "Error"

\* _process_resume_file: load_pdf reads the file.
LoadPdf ==
    /\ mode = "single" /\ stage = "Start"
    /\ stage' = "Ingested"
    /\ UNCHANGED <<xvars, mode, outcome, result, bvars, content, missing_skills,
                   section_embeddings, similarity_score, scoring_error, recommendations>>

\* A faulty failure path: a partial result is returned instead of the
\* exception.
LoadPdfFailPartial ==
    /\ mode = "single" /\ stage = "Start"
    /\ stage' = Raised
    /\ outcome' = "returned"
    /\ result' = [similarity_score |-> None,
                  missing_skills   |-> <<>>,
                  recommendations  |-> <<>>]
    /\ UNCHANGED <<xvars, mode, bvars, content, missing_skills,
                   section_embeddings, similarity_score, scoring_error, recommendations>>

\* load_pdf raises (an unreadable file).
LoadPdfFail ==
    /\ mode = "single" /\ stage = "Start"
    /\ stage' = Raised
    /\ outcome' = "raised"
    /\ UNCHANGED <<xvars, mode, result, bvars, content, missing_skills,
                   section_embeddings, similarity_score, scoring_error, recommendations>>

\* _process_resume_file: extract_key_sections, which has no failure path.
ExtractSections ==
    /\ mode = "single" /\ stage = "Ingested"
    /\ stage' = "Sectioned"
    /\ UNCHANGED <<xvars, mode, outcome, result, bvars, content, missing_skills,
                   section_embeddings, similarity_score, scoring_error, recommendations>>

\* _generate_section_embeddings: every non-blank section is embedded (the
\* embedding is kept by its cosine with the job vector).
GenerateSectionEmbeddings ==
    /\ mode = "single" /\ stage = "Sectioned"
    /\ section_embeddings' = content
    /\ stage' = "Embedded"
    /\ UNCHANGED <<xvars, mode, outcome, result, bvars, content, missing_skills,
                   similarity_score, scoring_error, recommendations>>

\* The embedding of a section raises.
SectionEmbedFail ==
    /\ mode = "single" /\ stage = "Sectioned"
    /\ DOMAIN content # {}
    /\ stage' = Raised
    /\ outcome' = "raised"
    /\ UNCHANGED <<xvars, mode, result, bvars, content, missing_skills,
                   section_embeddings, similarity_score, scoring_error, recommendations>>

\* _calculate_comprehensive_similarity.
CalculateSimilarity ==
    /\ mode = "single" /\ stage = "Embedded"
    /\ LET c == calculate_comprehensive_similarity(section_embeddings, content)
       IN /\ similarity_score' = c.score
          /\ scoring_error' = c.raised
    /\ stage' = "Scored"
    /\ UNCHANGED <<xvars, mode, outcome, result, bvars, content, missing_skills,
                   section_embeddings, recommendations>>

\* The embedding of the job text raises.
JobEmbedFail ==
    /\ mode = "single" /\ stage = "Embedded"
    /\ stage' = Raised
    /\ outcome' = "raised"
    /\ UNCHANGED <<xvars, mode, result, bvars, content, missing_skills,
                   section_embeddings, similarity_score, scoring_error, recommendations>>

\* Key matches, missing skills and recommendations.
GenerateInsights ==
    /\ mode = "single" /\ stage = "Scored"
    /\ recommendations' = generate_recommendations(similarity_score, missing_skills)
    /\ stage' = "Annotated"
    /\ UNCHANGED <<xvars, mode, outcome, result, bvars, content, missing_skills,
                   section_embeddings, similarity_score, scoring_error>>

\* What _identify_key_matches finds for the resume and the job of the
\* analysis.
KeyMatches == <<"Relevant experience with python">>

\* The SingleAnalysisResult analyze_single_resume builds.
SingleAnalysisResult(score, missing, recs) ==
    [resume_id          |-> "resume_doc.id",
     job_description_id |-> JobId,
     similarity_score   |-> score,
     key_matches        |-> KeyMatches,
     missing_skills     |-> missing,
     recommendations    |-> recs,
     analysis_timestamp |-> Now]

\* SimilarityScore.get_score_percentage of a score of the model (unit
\* SCALE: the product with 100 has two decimals and round(.., 2) leaves it).
ScorePercentage(score) ==
    CHOOSE score_pct \in get_score_percentage(score.overall_score, SCALE) : TRUE

\* SingleAnalysisResult.to_dict.
single_result_to_dict(r) ==
    [resume_id          |-> r.resume_id,
     job_description_id |-> r.job_description_id,
     similarity_score   |->
         [overall_score  |-> r.similarity_score.overall_score,
          section_scores |-> r.similarity_score.section_scores,
          confidence     |-> r.similarity_score.confidence,
          reasoning      |-> r.similarity_score.reasoning,
          percentage     |-> ScorePercentage(r.similarity_score),
          grade          |-> get_grade(ScorePercentage(r.similarity_score))],
     key_matches        |-> r.key_matches,
     missing_skills     |-> r.missing_skills,
     recommendations    |-> r.recommendations,
     analysis_timestamp |-> r.analysis_timestamp]

\* CandidateRanking.to_dict.
candidate_ranking_to_dict(ranking) ==
    [rank             |-> ranking.rank,
     resume_id        |-> ranking.resume_id,
     candidate_name   |-> ranking.candidate_name,
     similarity_score |->
         [overall_score |-> ranking.similarity_score.overall_score,
          percentage    |-> ScorePercentage(ranking.similarity_score),
          grade         |-> get_grade(ScorePercentage(ranking.similarity_score))],
     key_highlights   |-> ranking.key_highlights]

\* BatchAnalysisResult.to_dict.
batch_result_to_dict(r) ==
    [job_description_id |-> r.job_description_id,
     total_candidates   |-> r.total_candidates,
     top_n_requested    |-> r.top_n_requested,
     rankings           |-> [k \in 1..Len(r.rankings) |->
                                candidate_ranking_to_dict(r.rankings[k])],
     analysis_summary   |-> r.analysis_summary,
     analysis_timestamp |-> r.analysis_timestamp]

\* The caller exports the result of the batch.
ExportBatchResult ==
    /\ mode = "batch" /\ outcome = "returned" /\ call = None
    /\ call' = [fn |-> "BatchAnalysisResult.to_dict"]
    /\ ret' = Return(batch_result_to_dict(result))
    /\ UNCHANGED <<mode, outcome, result, bvars, svars, runs, interleaved>>

\* The caller exports the result of the single analysis.
ExportSingleResult ==
    /\ mode = "single" /\ outcome = "returned" /\ call = None
    /\ call' = [fn |-> "SingleAnalysisResult.to_dict"]
    /\ ret' = Return(single_result_to_dict(result))
    /\ UNCHANGED <<mode, outcome, result, bvars, svars, runs, interleaved>>

\* The SingleAnalysisResult is returned.
ReturnSingleResult ==
    /\ mode = "single" /\ stage = "Annotated"
    /\ result' = SingleAnalysisResult(similarity_score, missing_skills, recommendations)
    /\ outcome' = "returned"
    /\ stage' = "Done"
    /\ UNCHANGED <<xvars, mode, bvars, content, missing_skills,
                   section_embeddings, similarity_score, scoring_error, recommendations>>

\* ------------------------------------------- two batch runs on one index

\* Two BatchProcessor instances built with defaults: each has its own
\* VectorStoreManager, and both open the collection "resume_embeddings" of
\* the directory "./chroma_db".
RunIds == {1, 2}

OtherRun(r) == 3 - r

\* The paths lo, lo + 1, ..., hi.
PathsFrom(lo, hi) == [k \in 1..(hi - lo + 1) |-> lo + k - 1]

\* What _process_resume_batch collected from the paths ps.
ProcessedOf(ps) == SelectSeq(ps, LAMBDA p : resume_paths[p].ok)

RECURSIVE RankLoop(_, _, _)
\* The loop of _rank_candidates from enumerate index k on: a result that
\* resolves to a document of rs gets a ranking with rank k, another one is
\* skipped.
RankLoop(q, rs, k) ==
    IF k > Len(q) THEN <<>>
    ELSE (IF get_resume_by_id(rs, q[k].id) THEN <<CandidateRanking(k, q[k])>> ELSE <<>>)
         \o RankLoop(q, rs, k + 1)

\* What _rank_candidates returns for the query results q, no call raising.
rank_candidates(q, rs, n) == TopSlice(RankLoop(q, rs, 1), n)

\* clear_collection of run r: the collection is deleted and created anew by
\* name; the run holds the new collection, the handle of the other run is
\* one of the deleted collection.
ClearShared(r) ==
    /\ mode = "shared" /\ runs[r].pc = "clear"
    /\ index' = clear_collection(index)
    /\ runs' = [q \in RunIds |->
                   IF q = r THEN [runs[q] EXCEPT !.pc = "add", !.stale = FALSE]
                   ELSE [runs[q] EXCEPT !.stale = TRUE]]
    /\ interleaved' = (interleaved \/ runs[OtherRun(r)].pc \in {"add", "rank"})
    /\ UNCHANGED <<mode, outcome, result, resume_paths, max_workers, top_n, pc, task, resumes,
                   query, i, rankings, rescored, rank_error, svars, call, ret>>

\* add_documents of run r (not called for an empty collection).  Through
\* the handle of a deleted collection the documents go to the collection of
\* that name, when the index resolves the handle by name.
AddShared(r) ==
    /\ mode = "shared" /\ runs[r].pc = "add"
    /\ index' = IF runs[r].resumes = <<>> THEN index
                ELSE index \cup IndexEntries(runs[r].resumes)
    /\ runs' = [runs EXCEPT ![r].pc = "rank"]
    /\ UNCHANGED <<mode, outcome, result, resume_paths, max_workers, top_n, pc, task, resumes,
                   query, i, rankings, rescored, rank_error, svars, interleaved, call, ret>>

\* add_documents through the handle of a deleted collection raises, when
\* the index resolves the handle by identity: _index_resumes_in_vector_store
\* and process_batch_resumes log the error and re-raise it.
AddSharedRaise(r) ==
    /\ mode = "shared" /\ runs[r].pc = "add"
    /\ runs[r].stale /\ runs[r].resumes # <<>>
    /\ runs' = [runs EXCEPT ![r].pc = "done", ![r].outcome = "raised"]
    /\ UNCHANGED <<mode, outcome, result, resume_paths, max_workers, top_n, pc, task, resumes, index,
                   query, i, rankings, rescored, rank_error, svars, interleaved, call, ret>>

\* _rank_candidates of run r, no call raising (an empty collection is
\* answered with no ranking whether the query for no result raises or not),
\* then the summary and the result.
RankShared(r) ==
    /\ mode = "shared" /\ runs[r].pc = "rank"
    /\ \E rs \in IF runs[r].resumes = <<>> THEN {<<>>}
                 ELSE { rank_candidates(q, runs[r].resumes, runs[r].top_n) :
                          q \in similarity_search(index, Len(runs[r].resumes)) } :
           runs' = [runs EXCEPT ![r].pc = "done", ![r].outcome = "returned",
                                ![r].result =
                                    BatchAnalysisResult(runs[r].paths, runs[r].top_n, rs)]
    /\ UNCHANGED <<mode, outcome, result, resume_paths, max_workers, top_n, pc, task, resumes, index,
                   query, i, rankings, rescored, rank_error, svars, interleaved, call, ret>>

\* _rank_candidates of run r with a call that raises: an embedding call,
\* or the query through the handle of a deleted collection.  The except
\* branch returns [].
RankSharedFail(r) ==
    /\ mode = "shared" /\ runs[r].pc = "rank"
    /\ \E e \in {"embedding"} \cup
                (IF runs[r].stale /\ runs[r].resumes # <<>> THEN {"query"} ELSE {}) :
           runs' = [runs EXCEPT ![r].pc = "done", ![r].outcome = "returned",
                                ![r].rank_error = e,
                                ![r].result =
                                    BatchAnalysisResult(runs[r].paths, runs[r].top_n, <<>>)]
    /\ UNCHANGED <<mode, outcome, result, resume_paths, max_workers, top_n, pc, task, resumes, index,
                   query, i, rankings, rescored, rank_error, svars, interleaved, call, ret>>

\* ------------------------------------------------- calls of one function

\* The function fn is called on a fresh instance, or once more after a call
\* of it.
FirstOrAgain(fn) == IF call = None THEN TRUE ELSE call.fn = fn

\* Raw similarities on both sides of every value where
\* enhance_similarity_score, _enhance_batch_score or
\* apply_final_score_boost changes its formula, and a negative cosine.
ScoreGrid ==
    {0 - 5000, 0, 1, 785, 786, 1499, 1500, 1501, 1999, 2000, 2001, 2999, 3000,
     3001, 3999, 4000, 4001, 5000, 5999, 6000, 6001, 9000, 9999, SCALE, 15000}

\* A call of SimilarityCalculator.enhance_similarity_score.
CallEnhance ==
    /\ mode = "call" /\ FirstOrAgain("enhance_similarity_score")
    /\ \E raw_score \in ScoreGrid :
           /\ call' = [fn |-> "enhance_similarity_score", raw_score |-> raw_score]
           /\ ret' = Return(enhance_similarity_score(raw_score))
    /\ UNCHANGED <<mode, outcome, result, bvars, svars, runs, interleaved>>

\* A call of BatchProcessor._enhance_batch_score.
CallEnhanceBatch ==
    /\ mode = "call" /\ FirstOrAgain("_enhance_batch_score")
    /\ \E raw_score \in ScoreGrid :
           /\ call' = [fn |-> "_enhance_batch_score", raw_score |-> raw_score]
           /\ ret' = Return(enhance_batch_score(raw_score))
    /\ UNCHANGED <<mode, outcome, result, bvars, svars, runs, interleaved>>

\* A call of SimilarityCalculator.apply_final_score_boost: math.sqrt raises
\* on a negative score.
CallBoost ==
    /\ mode = "call" /\ FirstOrAgain("apply_final_score_boost")
    /\ \E score \in ScoreGrid :
           /\ call' = [fn |-> "apply_final_score_boost", score |-> score]
           /\ ret' = IF BoostRaises(score) THEN Exception
                     ELSE Return(apply_final_score_boost(score))
    /\ UNCHANGED <<mode, outcome, result, bvars, svars, runs, interleaved>>

\* Overall scores (unit FINE) on both sides of the grade boundaries and of
\* the percentages next to them.
FineScores ==
    {0, FINE} \cup
    UNION { { t - 100, t - 6, t - 5, t - 4, t, t + 4 } :
            t \in { b * (FINE \div 10) : b \in 5..8 } }

\* A call of SimilarityScore.get_score_percentage and get_grade on a score.
CallGetGrade ==
    /\ mode = "call" /\ call = None
    /\ \E overall_score \in FineScores :
         \E score_pct \in get_score_percentage(overall_score, FINE) :
           /\ call' = [fn |-> "get_grade", overall_score |-> overall_score]
           /\ ret' = Return([percentage |-> score_pct, grade |-> get_grade(score_pct)])
    /\ UNCHANGED <<mode, outcome, result, bvars, svars, runs, interleaved>>

\* ----------------------------------------------------- section extractor

\* Largest number of lines of a text given to extract_key_sections.
MaxLines == 3

\* A text is the sequence of its lines (the empty string has none).  A
\* line is known by the words of the pattern lists that line.lower()
\* contains, by whether line.strip() is empty, and by the white space it
\* starts and ends with.
LineKinds ==
    { [text |-> "SKILLS", words |-> {"skills"}, blank |-> FALSE,
       lead |-> FALSE, trail |-> FALSE],
      [text |-> "Work Experience ", words |-> {"experience", "work experience"},
       blank |-> FALSE, lead |-> FALSE, trail |-> TRUE],
      [text |-> "Education", words |-> {"education"}, blank |-> FALSE,
       lead |-> FALSE, trail |-> FALSE],
      [text |-> "Projects", words |-> {"projects"}, blank |-> FALSE,
       lead |-> FALSE, trail |-> FALSE],
      [text |-> "Skills and experience summary",
       words |-> {"skills", "experience", "summary"}, blank |-> FALSE,
       lead |-> FALSE, trail |-> FALSE],
      [text |-> "5 years of employment", words |-> {"employment"}, blank |-> FALSE,
       lead |-> FALSE, trail |-> FALSE],
      [text |-> " Python and SQL ", words |-> {}, blank |-> FALSE,
       lead |-> TRUE, trail |-> TRUE],
      [text |-> "  ", words |-> {}, blank |-> TRUE, lead |-> TRUE, trail |-> TRUE] }

Texts == UNION { [1..n -> LineKinds] : n \in 0..MaxLines }

skills_patterns == {"skills", "technical skills", "competencies", "technologies"}

exp_patterns == {"experience", "work experience", "employment", "professional experience"}

edu_patterns == {"education", "academic", "qualifications", "degrees"}

common_sections ==
    {"summary", "objective", "skills", "experience", "education", "projects",
     "certifications", "awards", "references"}

\* any(pattern in line_lower for pattern in patterns).
ContainsAny(line, patterns) == line.words \cap patterns # {}

\* str.strip() of a text: the white space before its first and after its
\* last character is removed (a text that is white space only becomes
\* empty).
Strip(lines) ==
    IF \A k \in 1..Len(lines) : lines[k].blank THEN <<>>
    ELSE LET first == CHOOSE k \in 1..Len(lines) :
                          ~lines[k].blank /\ \A j \in 1..(k - 1) : lines[j].blank
             last  == CHOOSE k \in 1..Len(lines) :
                          ~lines[k].blank /\ \A j \in (k + 1)..Len(lines) : lines[j].blank
         IN [k \in 1..(last - first + 1) |->
                LET line == lines[first + k - 1]
                IN [line EXCEPT !.lead  = IF k = 1 THEN FALSE ELSE @,
                                !.trail = IF first + k - 1 = last THEN FALSE ELSE @]]

RECURSIVE ScanLines(_, _, _, _)
\* The loop of _extract_section_by_patterns over the lines left.
ScanLines(content_lines, patterns, in_section, section_content) ==
    IF content_lines = <<>> THEN section_content
    ELSE LET line == Head(content_lines)
         IN IF ContainsAny(line, patterns)
            THEN ScanLines(Tail(content_lines), patterns, TRUE, section_content)
            ELSE IF in_section /\ ContainsAny(line, common_sections)
                               /\ ~ContainsAny(line, patterns)
            THEN section_content
            ELSE IF in_section /\ ~line.blank
            THEN ScanLines(Tail(content_lines), patterns, in_section,
                           Append(section_content, line))
            ELSE ScanLines(Tail(content_lines), patterns, in_section, section_content)

\* DocumentProcessor._extract_section_by_patterns.
extract_section_by_patterns(text, patterns) ==
    Strip(ScanLines(text, patterns, FALSE, <<>>))

\* A faulty extract_key_sections: full_content holds content.strip().
extract_key_sections_stripped(text) ==
    [skills       |-> extract_section_by_patterns(text, skills_patterns),
     experience   |-> extract_section_by_patterns(text, exp_patterns),
     education    |-> extract_section_by_patterns(text, edu_patterns),
     summary      |-> <<>>,
     full_content |-> Strip(text)]

\* DocumentProcessor.extract_key_sections.
extract_key_sections(text) ==
    [skills       |-> extract_section_by_patterns(text, skills_patterns),
     experience   |-> extract_section_by_patterns(text, exp_patterns),
     education    |-> extract_section_by_patterns(text, edu_patterns),
     summary      |-> <<>>,
     full_content |-> text]

\* A call of DocumentProcessor.extract_key_sections.
CallExtractKeySections ==
    /\ mode = "call" /\ call = None
    /\ \E text \in Texts :
           /\ call' = [fn |-> "extract_key_sections", content |-> text]
           /\ ret' = Return(extract_key_sections(text))
    /\ UNCHANGED <<mode, outcome, result, bvars, svars, runs, interleaved>>

\* Cosines of a section's vector with the job's vector.
CallCosines == {0 - 5000, 2000, 5000, 9000}

\* The section-to-vector maps given to weighted_similarity_score, each
\* vector by its cosine with the job's.
CallSectionMaps == UNION { [S -> CallCosines] : S \in SUBSET Sections }

\* The weight tables given to it: none, the table of the comprehensive
\* analysis, and a table for one section.
CallWeightTables == {None, section_weights, [summary |-> 60, projects |-> 40]}

\* A call of SimilarityCalculator.weighted_similarity_score.
CallWeightedSimilarityScore ==
    /\ mode = "call" /\ call = None
    /\ \E resume_sections \in CallSectionMaps : \E weights \in CallWeightTables :
           /\ call' = [fn |-> "weighted_similarity_score",
                       resume_sections |-> resume_sections,
                       section_weights |-> weights]
           /\ ret' = Return(weighted_similarity_score(resume_sections, weights))
    /\ UNCHANGED <<mode, outcome, result, bvars, svars, runs, interleaved>>

\* Largest number of rankings given to _generate_batch_summary.
MaxRankings == 3

\* Overall scores on both sides of the edges 0.5, 0.65 and 0.8 of the
\* histogram, and the ends of the score range.
SummaryScores == {0, 4999, 5000, 6499, 6500, 8000, 8001, SCALE}

\* The overall scores of the ranking lists given to it, in rank order.
ScoreLists == UNION { [1..n -> SummaryScores] : n \in 0..MaxRankings }

\* Rankings with the overall scores given (what else a ranking holds is
\* not read by the summary).
RankingsOf(scores) ==
    [k \in 1..Len(scores) |-> [similarity_score |-> [overall_score |-> scores[k]]]]

\* A call of BatchProcessor._generate_batch_summary, for a batch of as many
\* paths as it has rankings or of one more.
CallGenerateBatchSummary ==
    /\ mode = "call" /\ call = None
    /\ \E scores \in ScoreLists : \E total_candidates \in {Len(scores), Len(scores) + 1} :
           /\ call' = [fn |-> "_generate_batch_summary", scores |-> scores,
                       total_candidates |-> total_candidates]
           /\ ret' = Return(generate_batch_summary(RankingsOf(scores), total_candidates))
    /\ UNCHANGED <<mode, outcome, result, bvars, svars, runs, interleaved>>

\* Overall scores on both sides of the thresholds 0.6 and 0.8 of the
\* recommendations.
RecommendOveralls == {5999, 6000, 7999, 8000}

\* Section-score maps with the skills and the experience score absent or on
\* either side of 0.5.
RecommendSectionScores ==
    UNION { [S -> {4999, 5000}] : S \in SUBSET {"skills", "experience"} }

\* A call of ResumeAnalyzer._generate_recommendations with a score and a
\* list of missing skills.
CallGenerateRecommendations ==
    /\ mode = "call" /\ call = None
    /\ \E overall_score \in RecommendOveralls :
         \E section_scores \in RecommendSectionScores :
           \E missing \in MissingSkillLists :
             LET score == [overall_score  |-> overall_score,
                           section_scores |-> section_scores,
                           confidence     |-> SCALE,
                           reasoning      |-> <<>>]
             IN /\ similarity_score' = score
                /\ missing_skills' = missing
                /\ recommendations' = generate_recommendations(score, missing)
                /\ ret' = Return(generate_recommendations(score, missing))
    /\ call' = [fn |-> "_generate_recommendations"]
    /\ UNCHANGED <<mode, outcome, result, bvars, stage, content, section_embeddings,
                   scoring_error, runs, interleaved>>

\* -------------------------------------------------------- specification

InitBatch ==
    /\ mode = "batch"
    /\ resume_paths \in UNION { [1..n -> FileKinds] : n \in 0..MaxPaths }
    /\ max_workers \in PoolWidths
    /\ top_n \in TopNs
    /\ pc = "extract"
    /\ task = [p \in 1..Len(resume_paths) |-> "queued"]
    /\ resumes = <<>>
    /\ index \in {{}, {StaleEntry}}
    /\ query = <<>>
    /\ i = 1
    /\ rankings = <<>>
    /\ rescored = {}
    /\ rank_error = "none"
    /\ stage = "idle"
    /\ content = EmptyMap
    /\ missing_skills = <<>>

InitSingle ==
    /\ mode = "single"
    /\ resume_paths = <<>>
    /\ max_workers = DefaultWorkers
    /\ top_n = 1
    /\ pc = "idle"
    /\ task = <<>>
    /\ resumes = <<>>
    /\ index = {}
    /\ query = <<>>
    /\ i = 1
    /\ rankings = <<>>
    /\ rescored = {}
    /\ rank_error = "none"
    /\ stage = "Start"
    /\ content \in Contents
    /\ missing_skills \in MissingSkillLists

Init ==
    /\ outcome = "running"
    /\ result = None
    /\ section_embeddings = EmptyMap
    /\ similarity_score = None
    /\ scoring_error = FALSE
    /\ recommendations = <<>>
    /\ runs = <<>>
    /\ interleaved = FALSE
    /\ call = None
    /\ ret = None
    /\ (InitBatch \/ InitSingle)

NextBatch ==
    \/ \E p \in PathIds : StartTask(p)
    \/ \E p \in PathIds : FinishTask(p)
    \/ ProcessResumeBatchReturn
    \/ IndexResumes
    \/ RankJobEmbedFail
    \/ RankQuery
    \/ RankQueryEmpty
    \/ RescoreStep
    \/ RescoreEmbedFail
    \/ RankReturn
    \/ ReturnBatchResult
    \/ ExportBatchResult

NextSingle ==
    \/ LoadPdf
    \/ LoadPdfFail
    \/ ExtractSections
    \/ GenerateSectionEmbeddings
    \/ SectionEmbedFail
    \/ CalculateSimilarity
    \/ JobEmbedFail
    \/ GenerateInsights
    \/ ReturnSingleResult
    \/ ExportSingleResult

Next == NextBatch \/ NextSingle

Spec == Init /\ [][Next]_vars

\* Both runs have finished stage 1 (it touches nothing the runs share): run
\* 1 was given the first paths and run 2 the others, each path's document
\* is in its run's collection when the path was processed.
InitShared ==
    /\ mode = "shared"
    /\ outcome = "running"
    /\ result = None
    /\ resume_paths \in UNION { [1..n -> FileKinds] : n \in 0..MaxPaths }
    /\ max_workers = DefaultWorkers
    /\ top_n = 1
    /\ pc = "idle"
    /\ task = <<>>
    /\ resumes = <<>>
    /\ index = {}
    /\ query = <<>>
    /\ i = 1
    /\ rankings = <<>>
    /\ rescored = {}
    /\ rank_error = "none"
    /\ stage = "idle"
    /\ content = EmptyMap
    /\ missing_skills = <<>>
    /\ section_embeddings = EmptyMap
    /\ similarity_score = None
    /\ scoring_error = FALSE
    /\ recommendations = <<>>
    /\ \E m \in 0..Len(resume_paths) : \E n1, n2 \in TopNs :
           LET given(r) == IF r = 1 THEN PathsFrom(1, m)
                           ELSE PathsFrom(m + 1, Len(resume_paths))
           IN runs = [r \in RunIds |->
                  [paths      |-> given(r),
                   resumes    |-> ProcessedOf(given(r)),
                   top_n      |-> IF r = 1 THEN n1 ELSE n2,
                   pc         |-> "clear",
                   stale      |-> FALSE,
                   outcome    |-> "running",
                   rank_error |-> "none",
                   result     |-> None]]
    /\ interleaved = FALSE
    /\ call = None
    /\ ret = None

NextShared ==
    \/ \E r \in RunIds : ClearShared(r)
    \/ \E r \in RunIds : AddShared(r)
    \/ \E r \in RunIds : AddSharedRaise(r)
    \/ \E r \in RunIds : RankShared(r)
    \/ \E r \in RunIds : RankSharedFail(r)

SpecShared == InitShared /\ [][NextShared]_vars

\* A function of the calculator, of the models or of the section extractor
\* is called on its own, again and again.
InitCall ==
    /\ mode = "call"
    /\ outcome = "running"
    /\ result = None
    /\ resume_paths = <<>>
    /\ max_workers = DefaultWorkers
    /\ top_n = 1
    /\ pc = "idle"
    /\ task = <<>>
    /\ resumes = <<>>
    /\ index = {}
    /\ query = <<>>
    /\ i = 1
    /\ rankings = <<>>
    /\ rescored = {}
    /\ rank_error = "none"
    /\ stage = "idle"
    /\ content = EmptyMap
    /\ missing_skills = <<>>
    /\ section_embeddings = EmptyMap
    /\ similarity_score = None
    /\ scoring_error = FALSE
    /\ recommendations = <<>>
    /\ runs = <<>>
    /\ interleaved = FALSE
    /\ call = None
    /\ ret = None

NextCall ==
    \/ CallEnhance
    \/ CallEnhanceBatch
    \/ CallBoost
    \/ CallGetGrade
    \/ CallExtractKeySections
    \/ CallWeightedSimilarityScore
    \/ CallGenerateBatchSummary
    \/ CallGenerateRecommendations

SpecCall == InitCall /\ [][NextCall]_vars

\* --------------------------------------------------------------- claims

\* The documents stage 1 processes successfully.
Processed == { p \in PathIds : resume_paths[p].ok }

BatchReturned == mode = "batch" /\ outcome = "returned"

\* C1: in every BatchResult returned, the ranks of the rankings are unique
\* and are exactly 1, 2, ..., len(rankings), the k-th element carrying
\* rank k.
C1_RanksContiguous ==
    BatchReturned =>
        \A k \in 1..Len(result.rankings) : result.rankings[k].rank = k

\* A batch with a failed input and a stale index entry returned at least
\* two rankings.
C1_Witness ==
    /\ BatchReturned
    /\ Len(result.rankings) >= 2
    /\ \E p \in PathIds : ~resume_paths[p].ok

\* C2: the returned rankings are the query results in the query's order
\* (nothing reordered, inserted or removed by the re-score), and the
\* query-stage similarity 1 / (1 + distance) does not increase with the
\* rank.
C2_QueryOrder ==
    BatchReturned =>
        /\ Len(result.rankings) <= Len(query)
        /\ \A k \in 1..Len(result.rankings) :
               /\ result.rankings[k].resume = query[k].id
               /\ LET d == resume_paths[query[k].id].distance
                  IN /\ query[k].score * (SCALE + d) <= SCALE * SCALE
                     /\ (query[k].score + 1) * (SCALE + d) > SCALE * SCALE
        /\ \A a, b \in 1..Len(result.rankings) :
               a < b => query[a].score >= query[b].score

\* Two candidates returned whose detailed values are in the opposite order
\* of their ranks: the lower-ranked one has the larger overall score.
C2_Witness ==
    /\ BatchReturned
    /\ \E a, b \in 1..Len(result.rankings) :
           /\ a < b
           /\ query[a].score > query[b].score
           /\ result.rankings[a].similarity_score.overall_score
                  < result.rankings[b].similarity_score.overall_score

\* C3 (as claimed): for top_n >= 1 a returned batch holds exactly
\* min(top_n, processed_count) rankings.  The except branch of
\* _rank_candidates breaks it: an embedding failure in the ranking stage
\* returns no ranking whatever was processed.
C3_Orig_ExactCount ==
    BatchReturned => Len(result.rankings) = Min(top_n, Cardinality(Processed))

\* C4: a path that fails in stage 1 is dropped and does not fail the batch:
\* no error reaches the caller, a finished batch has returned, and from the
\* end of stage 1 on exactly the paths that succeeded are in the processed
\* collection and, from the index rebuild on, in the index the ranking
\* queries.
C4_FailedItemDropped ==
    mode = "batch" =>
        /\ outcome # "raised"
        /\ (pc = "done" => outcome = "returned")
        /\ (pc # "extract" =>
               /\ Range(resumes) = Processed
               /\ Len(resumes) = Cardinality(Processed))
        /\ (pc \in {"rank", "rescore", "summary", "done"} =>
               { e.id : e \in index } = Processed)

\* A batch with a failed path and a processed one finished, and the
\* processed one was ranked.
C4_Witness ==
    /\ BatchReturned
    /\ \E p \in PathIds : ~resume_paths[p].ok
    /\ \E p \in Processed : \E k \in 1..Len(result.rankings) :
           result.rankings[k].resume = p

\* C5 (as claimed): in a batch result with rankings, total_candidates is
\* the number of input paths and total_processed the number of documents
\* processed in stage 1, whatever top_n is.  The summary counts the
\* rankings left after the cut to top_n instead.
C5_Orig_TotalProcessed ==
    (BatchReturned /\ result.rankings # <<>>) =>
        /\ result.total_candidates = Len(resume_paths)
        /\ result.analysis_summary.total_candidates = Len(resume_paths)
        /\ result.analysis_summary.total_processed = Cardinality(Processed)

\* C6: a batch with at least one input path all of whose paths fail stage 1
\* never raises and ends with a BatchResult whose ranking list is empty; it
\* can always take its next step until it has returned.
C6_AllFailedEmptyResult ==
    (mode = "batch" /\ Len(resume_paths) >= 1 /\ Processed = {}) =>
        /\ outcome # "raised"
        /\ (pc # "done" => ENABLED NextBatch)
        /\ (pc = "done" =>
               /\ outcome = "returned"
               /\ result.rankings = <<>>
               /\ result.total_candidates = Len(resume_paths))

\* A batch of two paths, both failing, has returned.
C6_Witness ==
    /\ BatchReturned
    /\ Len(resume_paths) = 2
    /\ Processed = {}

\* C7 (as claimed): a batch invoked with no input path aborts with an error
\* and returns no BatchResult.  process_batch_resumes returns a result
\* with an empty ranking list instead.
C7_Orig_ZeroFilesFatal ==
    (mode = "batch" /\ Len(resume_paths) = 0 /\ pc = "done") =>
        /\ outcome = "raised"
        /\ result = None

\* C8 (as claimed): an embedding failure in the ranking stage aborts the
\* batch with an error and no BatchResult is returned.  _rank_candidates
\* catches it and the batch returns a result with no ranking.
C8_Orig_EmbedFailureFatal ==
    (mode = "batch" /\ rank_error = "embedding" /\ pc = "done") =>
        /\ outcome = "raised"
        /\ result = None

\* The stages of a single analysis, in order.
StageOrder == <<"Start", "Ingested", "Sectioned", "Embedded", "Scored", "Annotated", "Done">>

\* s2 is the stage after s1.
NextStage(s1, s2) ==
    \E k \in 1..(Len(StageOrder) - 1) : StageOrder[k] = s1 /\ StageOrder[k + 1] = s2

\* Every step of a single analysis moves to the next stage or to the
\* terminal error state; the error state holds no result and a result
\* exists only at Done.
LinearStages ==
    /\ stage' # stage => (NextStage(stage, stage') \/ stage' = "Error")
    /\ stage = "Error" => stage' = "Error"
    /\ stage' = "Error" => (result' = None /\ outcome' = "raised")
    /\ result' # None => (stage' = "Done" /\ outcome' = "returned")

\* C9 (as claimed): the stages are passed strictly in order and a failure
\* at any stage, scoring included, ends in the terminal error state with no
\* AnalysisResult.  A failure inside weighted_similarity_score is caught
\* there, and the analysis goes on to return a result.
C9_Orig_AnyFailureAborts ==
    [][mode = "single" =>
          /\ LinearStages
          /\ scoring_error' => (stage' = "Error" /\ result' = None)]_vars

\* C9 (amended): the stages are passed strictly in order; a failure of the
\* text extraction, of a section embedding or of the job embedding leads
\* from Start, Sectioned or Embedded to the terminal error state, where no
\* AnalysisResult exists; a failure inside weighted_similarity_score is
\* absorbed: the score is 0.0 with an empty section map and the analysis
\* never enters the error state because of it.
C9_LinearStagesScoringAbsorbed ==
    [][mode = "single" =>
          /\ LinearStages
          /\ (stage' = "Error" /\ stage # "Error") =>
                 stage \in {"Start", "Sectioned", "Embedded"}
          /\ scoring_error' =>
                 /\ stage' \in {"Scored", "Annotated", "Done"}
                 /\ similarity_score'.overall_score = 0
                 /\ similarity_score'.section_scores = EmptyMap]_vars

\* An analysis whose scoring failed inside weighted_similarity_score has
\* returned a result.
C9_Witness ==
    /\ mode = "single"
    /\ stage = "Done"
    /\ scoring_error
    /\ outcome = "returned"
    /\ result.similarity_score.overall_score = 0

\* The overall score is in [0, 1] and the confidence in [0.1, 1.0].
InScoreRange(score) ==
    /\ 0 <= score.overall_score /\ score.overall_score <= SCALE
    /\ SCALE \div 10 <= score.confidence /\ score.confidence <= SCALE

\* C10: every SimilarityScore of either mode (single: any section cosines
\* in [-1, 1]; batch: any query distance >= 0) has its overall score in
\* [0, 1] and its confidence in [0.1, 1.0]: the score of a single analysis,
\* the score of every ranking of a batch, and, when the index is about to
\* be queried, the re-score of each document of the batch at every distance
\* of the grid.
C10_ScoreRanges ==
    /\ (mode = "single" /\ similarity_score # None) => InScoreRange(similarity_score)
    /\ mode = "batch" =>
           /\ \A k \in 1..Len(rankings) : InScoreRange(rankings[k].similarity_score)
           /\ pc = "rank" =>
                  \A p \in Range(resumes) : \A d \in DistanceGrid :
                      InScoreRange(calculate_detailed_similarity_score(
                                       resume_paths[p].cos, DistanceToSimilarity(d)))

\* A single analysis whose boosted total is cut to 1.0.
C10_Witness ==
    /\ mode = "single"
    /\ similarity_score # None
    /\ ~scoring_error
    /\ similarity_score.overall_score = SCALE
    /\ WeightedTotal(section_embeddings, section_weights) < SCALE

\* Run r has ended with the rankings its processed collection calls for:
\* exactly min(top_n, processed_count) of them, with the ranks 1, 2, ...
IsolatedResult(r) ==
    /\ runs[r].outcome = "returned"
    /\ Len(runs[r].result.rankings) = Min(runs[r].top_n, Len(runs[r].resumes))
    /\ \A k \in 1..Len(runs[r].result.rankings) : runs[r].result.rankings[k].rank = k

\* C11 (as claimed): of two batch runs on one index, in every serialized
\* execution each run ends with exactly min(top_n, processed_count)
\* rankings with contiguous ranks (and only an interleaving of the runs'
\* clear, insert and query steps loses rankings or leaves gaps).  A
\* serialized run whose ranking stage meets an embedding failure returns no
\* ranking: the except branch of _rank_candidates (C8).
C11_Orig_SerializedIsolated ==
    mode = "shared" =>
        \A r \in RunIds : (runs[r].pc = "done" /\ ~interleaved) => IsolatedResult(r)

\* The serialized part of C11 for the runs whose ranking stage met no
\* failure.
C11_SerializedNoFailure ==
    mode = "shared" =>
        \A r \in RunIds :
            (runs[r].pc = "done" /\ ~interleaved /\ runs[r].rank_error = "none")
                => IsolatedResult(r)

\* The interleaved part of C11: a run that met no failure of its own has
\* returned a ranking list that starts at rank 2, its query having answered
\* with a document of the other run first.
C11_InterleavedGap ==
    /\ mode = "shared" /\ interleaved
    /\ \E r \in RunIds :
           /\ runs[r].pc = "done" /\ runs[r].outcome = "returned"
           /\ runs[r].rank_error = "none"
           /\ runs[r].result.rankings # <<>>
           /\ runs[r].result.rankings[1].rank = 2

\* The two enhancement functions.
EnhanceFns == {"enhance_similarity_score", "_enhance_batch_score"}

\* Two calls of the same function fn, one after the other.
SameFn(fn) == call # None /\ call.fn = fn /\ call'.fn = fn

\* C12 (as claimed): enhance_similarity_score and _enhance_batch_score are
\* monotonic non-decreasing on [0, 1] (a call with a raw score at least as
\* large returns at least as much) and map 0 to 0.  Both functions step
\* down where a formula takes over from the one before: 0.2999 gives
\* 0.5998 and 0.3 gives 0.45.
C12_Orig_Monotonic ==
    [][\A fn \in EnhanceFns :
           /\ (call'.fn = fn /\ call'.raw_score = 0) => ret'.value = 0
           /\ (/\ SameFn(fn)
               /\ 0 <= call.raw_score /\ call.raw_score <= call'.raw_score
               /\ call'.raw_score <= SCALE) => ret.value <= ret'.value]_vars

\* The raw scores where a function changes its formula.
Breakpoints(fn) ==
    IF fn = "enhance_similarity_score" THEN {1500, 3000, 6000} ELSE {2000, 4000, 6000}

\* C13 (as claimed): at each breakpoint the formula below it and the
\* formula from it on give the same value, that is the value at the
\* breakpoint is the limit of the values below it: from one fixed-point
\* step below the breakpoint to the breakpoint the result moves by the
\* slope of the lower formula (at most 2 steps, 3 with the rounding) and
\* does not jump.
C13_Orig_Continuous ==
    [][\A fn \in EnhanceFns :
           (/\ SameFn(fn)
            /\ call'.raw_score \in Breakpoints(fn)
            /\ call.raw_score = call'.raw_score - 1)
               => (ret'.value - ret.value <= 3 /\ ret.value - ret'.value <= 3)]_vars

C15_GradeBoundaries ==
    (mode = "call" /\ call # None /\ call.fn = "get_grade") =>
        LET pct   == ret.value.percentage
            grade == ret.value.grade
            step  == FINE \div SCALE
        IN /\ 2 * (pct * step - call.overall_score) <= step
           /\ 2 * (call.overall_score - pct * step) <= step
           /\ grade = "A" <=> pct >= 8000
           /\ grade = "B" <=> (7000 <= pct /\ pct < 8000)
           /\ grade = "C" <=> (6000 <= pct /\ pct < 7000)
           /\ grade = "D" <=> (5000 <= pct /\ pct < 6000)
           /\ grade = "F" <=> pct < 5000

\* An overall score below 0.8 whose percentage is 80.0 is graded A.
C15_Witness ==
    /\ mode = "call" /\ call # None
    /\ call.fn = "get_grade"
    /\ call.overall_score < 8 * (FINE \div 10)
    /\ ret.value.percentage = 8000
    /\ ret.value.grade = "A"

\* The pattern list of each section extract_key_sections looks for (none
\* for the summary).
PatternsOf(section) ==
    IF section = "skills" THEN skills_patterns
    ELSE IF section = "experience" THEN exp_patterns
    ELSE IF section = "education" THEN edu_patterns
    ELSE {}

\* C16: for every text, extract_key_sections returns (it does not raise) a
\* mapping whose keys are exactly skills, experience, education, summary
\* and full_content, with full_content the unmodified input and with the
\* empty string for every section no line of the text names.
C16_FixedKeysFullContent ==
    (mode = "call" /\ call # None /\ call.fn = "extract_key_sections") =>
        /\ ret # Exception
        /\ DOMAIN ret.value = Sections
        /\ ret.value.full_content = call.content
        /\ \A section \in Sections \ {"full_content"} :
               (\A k \in 1..Len(call.content) :
                    ~ContainsAny(call.content[k], PatternsOf(section)))
                   => ret.value[section] = <<>>

\* A text that starts with white space, with a skills section found and no
\* education section.
C16_Witness ==
    /\ mode = "call" /\ call # None
    /\ call.fn = "extract_key_sections"
    /\ Len(call.content) >= 2
    /\ call.content[1].blank
    /\ ret.value.skills # <<>>
    /\ ret.value.education = <<>>
    /\ \A k \in 1..Len(call.content) : ~ContainsAny(call.content[k], edu_patterns)

\* C17: in every returned CandidateRanking the display id and the candidate
\* name are the same, and they are the name of the file the document came
\* from, without its directories and without its extension, whatever the
\* document holds.
C17_IdentityIsFileName ==
    BatchReturned =>
        \A k \in 1..Len(result.rankings) :
            LET ranking == result.rankings[k]
            IN /\ ranking.resume_id = ranking.candidate_name
               /\ ranking.resume_id = resume_paths[ranking.resume].name

\* A ranking for a file with a "." in its name and in a directory of its
\* path was returned, and one for a file without extension.
C17_Witness ==
    /\ BatchReturned
    /\ \E k \in 1..Len(result.rankings) :
           result.rankings[k].resume_id = <<"c", "v", ".", "a">>
    /\ \E k \in 1..Len(result.rankings) :
           /\ result.rankings[k].candidate_name = <<"c">>
           /\ LastIndexOf(resume_paths[result.rankings[k].resume].file_path, ".") > 0

\* The keys of an exported SimilarityScore: its fields and the two derived
\* values.
ScoreExportKeys ==
    {"overall_score", "section_scores", "confidence", "reasoning", "percentage", "grade"}

\* The export holds the score: every field with its value, the percentage
\* and the grade.
ExportsScore(exported, score) ==
    /\ ScoreExportKeys \subseteq DOMAIN exported
    /\ \A f \in DOMAIN score : exported[f] = score[f]
    /\ exported.percentage * SCALE = score.overall_score * 100 * 100
    /\ exported.grade = get_grade(exported.percentage)

\* The export of a single analysis holds every field of the result and of
\* its score.
SingleExportComplete ==
    (mode = "single" /\ call # None) =>
        /\ DOMAIN result \subseteq DOMAIN ret.value
        /\ \A f \in DOMAIN result \ {"similarity_score"} : ret.value[f] = result[f]
        /\ ExportsScore(ret.value.similarity_score, result.similarity_score)

\* C18 (as claimed): the export of a result holds every field of the data
\* model and the derived percentage and grade; each ranking exported by
\* BatchAnalysisResult.to_dict carries the overall score, the section
\* scores, the confidence and the reasoning of its SimilarityScore, as the
\* export of a single analysis does.  CandidateRanking.to_dict exports the
\* overall score, the percentage and the grade only.
C18_Orig_ExportComplete ==
    /\ SingleExportComplete
    /\ (mode = "batch" /\ call # None) =>
           /\ DOMAIN result \subseteq DOMAIN ret.value
           /\ Len(ret.value.rankings) = Len(result.rankings)
           /\ \A k \in 1..Len(result.rankings) :
                  /\ {"rank", "resume_id", "candidate_name", "similarity_score",
                      "key_highlights"} \subseteq DOMAIN ret.value.rankings[k]
                  /\ ExportsScore(ret.value.rankings[k].similarity_score,
                                  result.rankings[k].similarity_score)

\* The number of the sections skills, experience and education the
\* document of the single analysis has.
SectionsPresent == Cardinality(DOMAIN content \cap {"skills", "experience", "education"})

\* clamp(0.6 * (present / 3) + 0.4 * consistency, 0.1, 1.0).
ConfidenceWith(consistency) ==
    Min(SCALE, Max(SCALE \div 10,
                   (((SectionsPresent * SCALE) \div 3) * 6) \div 10 + (consistency * 4) \div 10))

\* The single analysis has computed its score.
SingleScored == mode = "single" /\ similarity_score # None

\* C19 (as claimed): the confidence of a single analysis is
\* clamp(0.6 * present / 3 + 0.4 * max(0, 1 - variance), 0.1, 1.0) whatever
\* the number of scored sections, the variance of fewer than two scores
\* being 0.  With fewer than two scored sections _calculate_confidence
\* takes 0.5 for the second term's factor, not 1 - 0.
C19_Orig_ConfidenceFormula ==
    SingleScored =>
        LET scores == similarity_score.section_scores
            variance == IF Cardinality(DOMAIN scores) > 1 THEN Variance(scores) ELSE 0
        IN similarity_score.confidence = ConfidenceWith(Max(0, SCALE - variance))

\* C19 (amended): the confidence of a single analysis is
\* clamp(0.6 * present / 3 + 0.4 * c, 0.1, 1.0), where c is
\* max(0, 1 - variance of the section scores) when at least two sections
\* were scored and 0.5 when fewer than two were.
C19_ConfidenceHalfBelowTwo ==
    SingleScored =>
        LET scores == similarity_score.section_scores
        IN similarity_score.confidence =
               ConfidenceWith(IF Cardinality(DOMAIN scores) > 1
                              THEN Max(0, SCALE - Variance(scores))
                              ELSE SCALE \div 2)

\* A document with the three sections, none of them scored because the
\* scoring failed: the confidence is 0.6 + 0.4 * 0.5.
C19_Witness ==
    /\ SingleScored
    /\ SectionsPresent = 3
    /\ similarity_score.section_scores = EmptyMap
    /\ similarity_score.confidence = 8000

\* The weight table a call of weighted_similarity_score works with.
WeightsUsed ==
    IF call.section_weights = None
    THEN [skills |-> 35, experience |-> 30, education |-> 25, summary |-> 10]
    ELSE call.section_weights

\* The sections present in the section map and in the weight table of the
\* call.
InBoth == DOMAIN call.resume_sections \cap DOMAIN WeightsUsed

\* The sum over these sections of ENHANCE(cosine) * weight.
EnhancedTotal ==
    SumOver([s \in InBoth |->
                enhance_similarity_score(call.resume_sections[s]) * WeightsUsed[s]],
            InBoth) \div 100

\* The section map of the call's answer has exactly the sections present in
\* both maps, each with its enhanced similarity (0.75 for the cosine 0.5).
EnhancedSectionMap ==
    /\ DOMAIN ret.value.section_scores = InBoth
    /\ \A s \in InBoth :
           /\ ret.value.section_scores[s] = enhance_similarity_score(call.resume_sections[s])
           /\ call.resume_sections[s] = 5000 => ret.value.section_scores[s] = 7500

WeightedCalled == mode = "call" /\ call # None /\ call.fn = "weighted_similarity_score"

\* C20 (as claimed): for every section map, with cosines anywhere in
\* [-1, 1], and every weight table, weighted_similarity_score returns
\* BOOST of the sum of ENHANCE(cosine) * weight over the sections present
\* in both maps, and a section map with exactly these sections and their
\* enhanced similarities.  With a negative sum the square root of BOOST
\* raises and the answer is 0.0 with an empty section map.
C20_Orig_WeightedScore ==
    WeightedCalled =>
        /\ EnhancedSectionMap
        /\ ret.value.overall = apply_final_score_boost(EnhancedTotal)

\* C20 (amended): when the sum of ENHANCE(cosine) * weight over the
\* sections present in both maps is not negative, weighted_similarity_score
\* returns BOOST of it and a section map with exactly these sections and
\* their enhanced (not weighted) similarities; when the sum is negative it
\* returns 0.0 and an empty section map.
C20_WeightedScoreOrZero ==
    WeightedCalled =>
        IF EnhancedTotal >= 0
        THEN /\ EnhancedSectionMap
             /\ ret.value.overall = apply_final_score_boost(EnhancedTotal)
        ELSE /\ ret.value.section_scores = EmptyMap
             /\ ret.value.overall = 0

\* A call with a section of cosine 0.5 and one of negative cosine whose
\* sum is positive, and a section the weight table does not name.
C20_Witness ==
    /\ WeightedCalled
    /\ EnhancedTotal > 0
    /\ InBoth # DOMAIN call.resume_sections
    /\ \E s, t \in InBoth : call.resume_sections[s] = 5000 /\ call.resume_sections[t] < 0
    /\ ret.value.overall > 0

\* The index holds one entry for each document of rs and nothing else.
OneEntryEach(rs) ==
    /\ \A p \in Range(rs) : Cardinality({ e \in index : e.id = p }) = 1
    /\ \A e \in index : e.id \in Range(rs)
    /\ Cardinality(index) = Len(rs)

\* C21: after the index rebuild of a batch run, whatever the index held
\* before (nothing, an entry of unknown origin, the entries of a run that
\* ended before this one began), the index holds exactly one entry per
\* document the run processed and nothing else; between the clear and the
\* insert of the run the index is empty.
C21_IndexRebuilt ==
    /\ (mode = "batch" /\ pc \in {"rank", "rescore", "summary", "done"}) =>
           /\ OneEntryEach(resumes)
           /\ StaleEntry \notin index
    /\ mode = "shared" =>
           \A r \in RunIds :
               ~interleaved =>
                   /\ runs[r].pc = "add" => index = {}
                   /\ runs[r].pc = "rank" => OneEntryEach(runs[r].resumes)

\* The second run has rebuilt the index after the first run, which had
\* inserted its documents, returned: the index holds the second run's
\* documents only.
C21_Witness ==
    /\ mode = "shared" /\ ~interleaved
    /\ runs[1].pc = "done" /\ runs[1].outcome = "returned"
    /\ runs[1].resumes # <<>>
    /\ runs[2].pc = "rank"
    /\ Len(runs[2].resumes) >= 1
    /\ index = IndexEntries(runs[2].resumes)

\* C22 (as claimed): in a returned batch with more processed documents
\* than top_n whose ranking stage met no failure, exactly top_n detailed
\* re-scores have run and no candidate outside the returned rankings was
\* re-scored.  The loop of _rank_candidates re-scores every query result
\* and the list is cut to top_n afterwards.
C22_Orig_RescoreOnlyReturned ==
    (BatchReturned /\ rank_error = "none" /\ Cardinality(Processed) > top_n) =>
        /\ Cardinality(rescored) = top_n
        /\ rescored = { result.rankings[k].resume : k \in 1..Len(result.rankings) }

\* The paths whose task a pool thread is running.
Running == { p \in PathIds : task[p] = "running" }

\* C23: during stage 1 the number of paths being extracted and embedded at
\* the same time is never more than the pool width max_workers, however
\* many paths were submitted.
C23_PoolWidthBound ==
    mode = "batch" => Cardinality(Running) <= max_workers

\* Every thread of the pool is busy and a path waits in the queue.
C23_Witness ==
    /\ mode = "batch" /\ pc = "extract"
    /\ Cardinality(Running) = max_workers
    /\ \E p \in PathIds : task[p] = "queued"

\* The positions of the collection rs that hold the document of path p.
PositionsOf(rs, p) == { k \in 1..Len(rs) : rs[k] = p }

\* C24: every path's task goes from queued to running to done and never
\* back (the path is attempted once, there is no retry); stage 1 is left
\* only when every task is done, and from then on every path is either in
\* the processed collection exactly once or, its processing having failed,
\* not in it at all, so that the processed and the dropped paths add up to
\* the input paths, in whatever order the tasks complete.
C24_FanInComplete ==
    [][mode = "batch" =>
          /\ \A p \in PathIds :
                 /\ task[p] = "done" => task'[p] = "done"
                 /\ task[p] = "running" => task'[p] \in {"running", "done"}
                 /\ task[p] = "queued" => task'[p] \in {"queued", "running"}
                 /\ (task[p] # "done" /\ task'[p] = "done") =>
                        Len(resumes') = Len(resumes) + (IF resume_paths[p].ok THEN 1 ELSE 0)
          /\ pc' # "extract" =>
                 /\ \A p \in PathIds :
                        /\ task'[p] = "done"
                        /\ Cardinality(PositionsOf(resumes', p)) =
                               (IF resume_paths[p].ok THEN 1 ELSE 0)
                 /\ Len(resumes') + Cardinality(PathIds \ Processed) = Len(resume_paths)
                 /\ resumes' = resumes]_vars

\* Stage 1 is over for three paths, of which one was dropped and the other
\* two were collected in the opposite order of their submission.
C24_Witness ==
    /\ mode = "batch" /\ pc = "index"
    /\ Len(resume_paths) = 3
    /\ Cardinality(PathIds \ Processed) = 1
    /\ Len(resumes) = 2
    /\ resumes[1] > resumes[2]

ExtractCalled == mode = "call" /\ call # None /\ call.fn = "extract_key_sections"

\* The sections extract_key_sections scans the text for.
TargetSections == {"skills", "experience", "education"}

\* The first line of the text that matches one of the patterns (0: none).
FirstMatch(text, patterns) ==
    LET at == { k \in 1..Len(text) : ContainsAny(text[k], patterns) }
    IN IF at = {} THEN 0 ELSE CHOOSE k \in at : \A j \in at : k <= j

\* The first line after line h that names a recognised section and matches
\* none of the patterns (one past the last line: none).
Terminator(text, patterns, h) ==
    LET at == { k \in (h + 1)..Len(text) :
                  ContainsAny(text[k], common_sections) /\ ~ContainsAny(text[k], patterns) }
    IN IF at = {} THEN Len(text) + 1 ELSE CHOOSE k \in at : \A j \in at : k <= j

\* The lines between the opening line and the terminating line.
SectionBody(text, patterns) ==
    LET h == FirstMatch(text, patterns)
    IN IF h = 0 THEN <<>> ELSE SubSeq(text, h + 1, Terminator(text, patterns, h) - 1)

\* C25 (as claimed): each target section is the lines of a top-to-bottom
\* scan: the first line matching one of its patterns opens it and is not
\* content, every later non-blank line is content until the first line that
\* names a recognised section and matches none of the section's patterns,
\* or the end of the text, and no line from there on is content.  A later
\* line that matches a pattern of the section is no content either: the
\* scan skips every matching line.
C25_Orig_ScanAccumulates ==
    ExtractCalled =>
        \A section \in TargetSections :
            ret.value[section] =
                Strip(SelectSeq(SectionBody(call.content, PatternsOf(section)),
                                LAMBDA line : ~line.blank))

\* What holds of the scan: the content is the non-blank lines between the
\* opening and the terminating line that match none of the section's
\* patterns.
C25_ScanSkipsMatching ==
    ExtractCalled =>
        \A section \in TargetSections :
            ret.value[section] =
                Strip(SelectSeq(SectionBody(call.content, PatternsOf(section)),
                                LAMBDA line : ~line.blank
                                              /\ ~ContainsAny(line, PatternsOf(section))))

\* The order in which extract_key_sections extracts the target sections.
SectionOrder == <<"skills", "experience", "education">>

\* The target sections extracted before SectionOrder[n] whose patterns the
\* line matches.
EarlierMatches(line, n) ==
    { m \in 1..(n - 1) : ContainsAny(line, PatternsOf(SectionOrder[m])) }

\* C26 (as claimed): a line that matches patterns of more than one target
\* section opens only the first of them in the order skills, experience,
\* education: a later section all of whose matching lines also match an
\* earlier section is never opened and stays empty.  Each section is
\* extracted by a scan of its own over the whole text, so the line opens
\* every section it matches.
C26_Orig_FirstSectionWins ==
    ExtractCalled =>
        \A n \in 1..Len(SectionOrder) :
            (\A k \in 1..Len(call.content) :
                 ContainsAny(call.content[k], PatternsOf(SectionOrder[n]))
                     => EarlierMatches(call.content[k], n) # {})
                => ret.value[SectionOrder[n]] = <<>>

\* The number of the scores with 10000 * score in lo..hi.
InBucket(scores, lo, hi) ==
    Cardinality({ k \in 1..Len(scores) : lo <= scores[k] /\ scores[k] <= hi })

\* The summary sm is the one of the overall scores given: every score is
\* counted in one bucket (above 0.8; 0.65 to 0.8; 0.5 to below 0.65; below
\* 0.5), the counts add up to the number of scores, and min <= median <=
\* max with min and max among the scores.
SummaryOf(sm, scores) ==
    LET d == sm.score_distribution
    IN /\ sm.total_processed = Len(scores)
       /\ d.excellent = InBucket(scores, 8001, SCALE)
       /\ d.good = InBucket(scores, 6500, 8000)
       /\ d.fair = InBucket(scores, 5000, 6499)
       /\ d.poor = InBucket(scores, 0, 4999)
       /\ d.excellent + d.good + d.fair + d.poor = Len(scores)
       /\ sm.min_score <= sm.median_score /\ sm.median_score <= sm.max_score
       /\ sm.min_score \in Range(scores) /\ sm.max_score \in Range(scores)
       /\ \A k \in 1..Len(scores) : sm.min_score <= scores[k] /\ scores[k] <= sm.max_score

SummaryCalled == mode = "call" /\ call # None /\ call.fn = "_generate_batch_summary"

ClaimedRules ==
    <<"more experience", "develop skills", "skills section", "experience section",
      "interview">>

\* The rules of _generate_recommendations, in order: the last two exclude
\* each other.
CodedRules == Append(ClaimedRules, "consider")

\* The section's score was computed and is below 0.5.
LowSection(section) ==
    /\ section \in DOMAIN similarity_score.section_scores
    /\ similarity_score.section_scores[section] < SCALE \div 2

\* The rule fires for the score and the missing skills of the analysis.
Fires(rule) ==
    LET overall == similarity_score.overall_score
    IN IF rule = "more experience" THEN 10 * overall < 6 * SCALE
       ELSE IF rule = "develop skills" THEN missing_skills # <<>>
       ELSE IF rule = "skills section" THEN LowSection("skills")
       ELSE IF rule = "experience section" THEN LowSection("experience")
       ELSE IF rule = "interview" THEN 10 * overall >= 8 * SCALE
       ELSE 10 * overall >= 6 * SCALE /\ 10 * overall < 8 * SCALE

\* The first at most three of the rules that fire, in rule order.
FirstThreeFired(rules) ==
    LET fired == SelectSeq(rules, Fires)
    IN SubSeq(fired, 1, Min(3, Len(fired)))

\* The recommendations name these rules, in this order, the one for the
\* missing skills listing the first three of them.
RecommendationsAre(rules) ==
    /\ Len(recommendations) = Len(rules)
    /\ \A k \in 1..Len(rules) :
           /\ recommendations[k].rule = rules[k]
           /\ recommendations[k].skills =
                  (IF rules[k] = "develop skills"
                   THEN SubSeq(missing_skills, 1, Min(3, Len(missing_skills)))
                   ELSE <<>>)

\* The recommendations were generated: by a single analysis, or by a call
\* of _generate_recommendations.
Recommended ==
    \/ mode = "single" /\ stage \in {"Annotated", "Done"}
    \/ mode = "call" /\ call = [fn |-> "_generate_recommendations"]

\* C28 (as claimed): the recommendations are the first at most three, in
\* rule order, of the five rules that fire: overall < 0.6, missing skills
\* (the first three listed), skills score < 0.5, experience score < 0.5,
\* high overall (interview).  An overall score from 0.6 to below 0.8 adds
\* an entry none of the five rules gives: suitable for further
\* consideration.
C28_Orig_FiveRules ==
    Recommended => RecommendationsAre(FirstThreeFired(ClaimedRules))

\* C28 (amended): the recommendations are the first at most three, in rule
\* order, of the rules that fire: (1) overall < 0.6, (2) missing skills
\* non-empty, listing the first three, (3) skills score < 0.5,
\* (4) experience score < 0.5, (5) overall >= 0.8, the interview
\* suggestion, (6) 0.6 <= overall < 0.8, the suggestion of further
\* consideration; the order of the fired rules is kept and the list never
\* has more than three entries.
C28_FirstThreeOfSixRules ==
    Recommended =>
        /\ RecommendationsAre(FirstThreeFired(CodedRules))
        /\ Len(recommendations) <= 3

\* Four rules fire and the fourth is cut off.
C28_Witness ==
    /\ Recommended
    /\ Len(SelectSeq(CodedRules, Fires)) = 4
    /\ Len(recommendations) = 3
    /\ recommendations[1].rule = "more experience"
    /\ recommendations[2].skills = <<"Python", "Aws", "Docker">>
    /\ recommendations[3].rule = "skills section"

\* The processed documents have pairwise distinct query distances.
DistinctDistances ==
    \A p, q \in Processed : p # q => resume_paths[p].distance # resume_paths[q].distance

\* The processed paths, nearest first.
NearestFirst ==
    CHOOSE s \in Perms(Processed) :
        \A a, b \in 1..Len(s) :
            a < b => resume_paths[s[a]].distance < resume_paths[s[b]].distance

\* What the inputs alone call for: the processed paths nearest first, cut
\* to top_n, each with its rank, its file's name, the enhanced query
\* similarity and its highlights.
OutcomeOfInputs ==
    [k \in 1..Min(top_n, Cardinality(Processed)) |->
        LET p == NearestFirst[k]
        IN [rank           |-> k,
            candidate_name |-> resume_paths[p].name,
            overall_score  |->
                enhance_batch_score(DistanceToSimilarity(resume_paths[p].distance)),
            key_highlights |-> generate_candidate_highlights(p)]]

\* What a result reports of its rankings.
Reported(rs) ==
    [k \in 1..Len(rs) |->
        [rank           |-> rs[k].rank,
         candidate_name |-> rs[k].candidate_name,
         overall_score  |-> rs[k].similarity_score.overall_score,
         key_highlights |-> rs[k].key_highlights]]

\* C29: with no embedding call failing and pairwise distinct query
\* distances, what a batch returns (rank, candidate name, overall score and
\* highlights of each ranking, in order) is determined by its inputs alone:
\* it is the same after every start and completion order of the stage-1
\* workers.
C29_SchedulingIndependent ==
    (BatchReturned /\ rank_error # "embedding" /\ DistinctDistances) =>
        Reported(result.rankings) = OutcomeOfInputs

\* A batch has returned two or more rankings whose order is not the order
\* in which the workers completed.
C29_Witness ==
    /\ BatchReturned /\ rank_error = "none" /\ DistinctDistances
    /\ Len(result.rankings) >= 2
    /\ \E a, b \in 1..Len(resumes) :
           /\ a < b
           /\ resume_paths[resumes[a]].distance > resume_paths[resumes[b]].distance
           /\ \E k, m \in 1..Len(result.rankings) :
                  /\ k < m
                  /\ result.rankings[k].resume = resumes[b]
                  /\ result.rankings[m].resume = resumes[a]

\* C30 (as claimed): in every returned ranking list the overall score of
\* each ranking is _enhance_batch_score of the query similarity that gave
\* it its rank, and the overall scores do not increase with the rank.
\* _enhance_batch_score steps down at 0.4 and at 0.6 (C12): the similarity
\* 0.4 is reported as 0.65 and ranks above 0.3846, reported as 0.7192.
C30_Orig_ScoresNonIncreasing ==
    BatchReturned =>
        /\ \A k \in 1..Len(result.rankings) :
               result.rankings[k].similarity_score.overall_score =
                   enhance_batch_score(query[k].score)
        /\ \A a, b \in 1..Len(result.rankings) :
               a < b => result.rankings[a].similarity_score.overall_score
                            >= result.rankings[b].similarity_score.overall_score

\* What holds of the reported scores: each is _enhance_batch_score of the
\* query similarity of its rank, and the query similarities do not increase
\* with the rank.
C30_ScoresFollowQuery ==
    BatchReturned =>
        \A a, b \in 1..Len(result.rankings) :
            /\ result.rankings[a].similarity_score.overall_score =
                   enhance_batch_score(query[a].score)
            /\ a < b => query[a].score >= query[b].score

====
